---------------------------- MODULE Spec2Model ----------------------------
(***************************************************************************)
(* Model of crates/i18n/i18n.rs: the process-wide translation manager      *)
(* (I18N_MANAGER, a OnceCell<Mutex<I18nManager>>), the static string cache *)
(* (STATIC_TRANSLATIONS, a OnceCell<RwLock<HashMap<String,String>>>) and   *)
(* the free functions init, set_language, get_language, t, t_args,         *)
(* t_static and clear_static_cache, called from several threads.           *)
(*                                                                         *)
(* Strings are sequences of one-character strings, so that format!,        *)
(* str::replace and HashMap lookups by composed keys are computed and not  *)
(* assumed.  Option<T> is a set with at most one element.  A HashMap is a  *)
(* function whose DOMAIN is its key set.                                   *)
(***************************************************************************)
EXTENDS Naturals, Sequences, FiniteSets, TLC

(***************************************************************************)
(* Bounds of the model.                                                    *)
(***************************************************************************)
MaxOps == 3
MaxTokens == 3
MaxArgs == 2
MaxParts == 2

Threads == {1, 2}

(***************************************************************************)
(* Option<T>                                                               *)
(***************************************************************************)
None == {}
Some(x) == {x}
IsSome(o) == o # {}
Unwrap(o) == CHOOSE x \in o : TRUE

(* OnceCell::set: the cell afterwards; it keeps the value it has and the
   result is Err when it has one *)
OnceCell_set_replacing(cell, value) == Some(value)

OnceCell_set(cell, value) == IF cell = None THEN Some(value) ELSE cell

(***************************************************************************)
(* HashMap<K, V>                                                           *)
(***************************************************************************)
EmptyMap == [x \in {} |-> <<>>]
MapGet(m, k) == IF k \in DOMAIN m THEN Some(m[k]) ELSE None

(***************************************************************************)
(* enum Language and its wire tags                                          *)
(***************************************************************************)
Language ==
    {"English", "SimplifiedChinese", "TraditionalChinese", "Japanese", "Korean"}

(* as_str answering the short alias for SimplifiedChinese *)
as_str_alias(lang) ==
    CASE lang = "English" -> <<"e", "n">>
      [] lang = "SimplifiedChinese" -> <<"z", "h">>
      [] lang = "TraditionalChinese" -> <<"z", "h", "-", "T", "W">>
      [] lang = "Japanese" -> <<"j", "a">>
      [] lang = "Korean" -> <<"k", "o">>

as_str(lang) ==
    CASE lang = "English" -> <<"e", "n">>
      [] lang = "SimplifiedChinese" -> <<"z", "h", "-", "C", "N">>
      [] lang = "TraditionalChinese" -> <<"z", "h", "-", "T", "W">>
      [] lang = "Japanese" -> <<"j", "a">>
      [] lang = "Korean" -> <<"k", "o">>

from_str(s) ==
    CASE s = <<"e", "n">> -> Some("English")
      [] s \in {<<"z", "h", "-", "C", "N">>, <<"z", "h", "_", "c", "n">>, <<"z", "h">>}
            -> Some("SimplifiedChinese")
      [] s \in {<<"z", "h", "-", "T", "W">>, <<"z", "h", "_", "t", "w">>}
            -> Some("TraditionalChinese")
      [] s = <<"j", "a">> -> Some("Japanese")
      [] s = <<"k", "o">> -> Some("Korean")
      [] OTHER -> None

(***************************************************************************)
(* The locale assets compiled in by include_str!.  Each is a JSON text:   *)
(* valid (a flat object of string pairs) or not.  The files are not part   *)
(* of the sources; these contents are the model's input.                   *)
(***************************************************************************)
KeyA == <<"a">>
KeyM == <<"m">>
KeyEnA == <<"e", "n", ":", "a">>
KeyP0 == <<"{", "0", "}">>

Json(obj) == [valid |-> TRUE, obj |-> obj]
Malformed == [valid |-> FALSE, obj |-> EmptyMap]

LocaleAsset(lang) ==
    CASE lang = "English" ->
            Json((KeyA :> <<"E", "a">>)
                   @@ (KeyM :> <<"{", "0", "}", "+", "{", "1", "}">>))
      [] lang = "SimplifiedChinese" ->
            Json((KeyA :> <<"Z", "a">>)
                   @@ (KeyM :> <<"{", "1", "}", "-", "{", "0", "}">>))
      [] lang = "TraditionalChinese" -> Json(KeyA :> <<"T", "a">>)
      [] lang = "Japanese" -> Malformed
      [] lang = "Korean" -> Json(EmptyMap)
(***************************************************************************)
(* I18nManager                                                             *)
(***************************************************************************)
(* a load that answers the English table for a text that does not parse *)
load_from_json_or_english(json) ==
    IF json.valid THEN json.obj ELSE LocaleAsset("English").obj

load_from_json(json) == IF json.valid THEN json.obj ELSE EmptyMap

load_translations(lang) == load_from_json(LocaleAsset(lang))

(* a manager that starts with English *)
I18nManager_new_english ==
    [current_language |-> "English",
     translations |-> [lang \in Language |-> load_translations(lang)]]

I18nManager_new ==
    [current_language |-> "SimplifiedChinese",
     translations |-> [lang \in Language |-> load_translations(lang)]]

(* a set_language that keeps the table of the new language only *)
I18nManager_set_language_reload(m, lang) ==
    [current_language |-> lang,
     translations |-> [l \in Language |->
                          IF l = lang THEN m.translations[l] ELSE EmptyMap]]

I18nManager_set_language(m, lang) == [m EXCEPT !.current_language = lang]

(* a get_language that answers the language new() starts with *)
I18nManager_get_language_default(m) == "SimplifiedChinese"

I18nManager_get_language(m) == m.current_language

(* translate with a fallback to the English table *)
translate_fallback_english(m, key) ==
    LET trans == MapGet(m.translations, m.current_language)
        found == IF IsSome(trans) THEN MapGet(Unwrap(trans), key) ELSE None
        en == MapGet(m.translations["English"], key)
    IN  IF IsSome(found) THEN Unwrap(found)
        ELSE IF IsSome(en) THEN Unwrap(en) ELSE key

translate(m, key) ==
    LET trans == MapGet(m.translations, m.current_language)
        found == IF IsSome(trans) THEN MapGet(Unwrap(trans), key) ELSE None
    IN  IF IsSome(found) THEN Unwrap(found) ELSE key

(* str::replacen(from, to, 1): the first match only *)
RECURSIVE replace_first(_, _, _)
replace_first(s, from, to) ==
    IF Len(s) < Len(from) THEN s
    ELSE IF SubSeq(s, 1, Len(from)) = from
         THEN to \o SubSeq(s, Len(from) + 1, Len(s))
         ELSE <<Head(s)>> \o replace_first(Tail(s), from, to)

(* str::replace: every non-overlapping match of from, left to right *)
RECURSIVE replace(_, _, _)
replace(s, from, to) ==
    IF Len(s) < Len(from) THEN s
    ELSE IF SubSeq(s, 1, Len(from)) = from
         THEN to \o replace(SubSeq(s, Len(from) + 1, Len(s)), from, to)
         ELSE <<Head(s)>> \o replace(Tail(s), from, to)

Digit(d) == <<"0", "1", "2", "3", "4", "5", "6", "7", "8", "9">>[d + 1]

RECURSIVE Decimal(_)
Decimal(i) == IF i < 10 THEN <<Digit(i)>> ELSE Decimal(i \div 10) \o <<Digit(i % 10)>>

(* format!("{{{}}}", i) *)
Placeholder(i) == <<"{">> \o Decimal(i) \o <<"}">>

(* the loop run from the last index down to index i *)
RECURSIVE SubstFrom_reverse(_, _, _)
SubstFrom_reverse(result, args, i) ==
    IF i >= Len(args) THEN result
    ELSE replace(SubstFrom_reverse(result, args, i + 1), Placeholder(i), args[i + 1])

(* the loop of translate_with_args from index i (0-based) on *)
RECURSIVE SubstFrom(_, _, _)
SubstFrom(result, args, i) ==
    IF i >= Len(args) THEN result
    ELSE SubstFrom(replace(result, Placeholder(i), args[i + 1]), args, i + 1)

translate_with_args(m, key, args) == SubstFrom(translate(m, key), args, 0)

(***************************************************************************)
(* The static cache                                                         *)
(***************************************************************************)
load_from_json_static(json) == IF json.valid THEN json.obj ELSE EmptyMap

(* format!("{}:{}", tag, key) *)
LangKey(tag, key) == tag \o <<":">> \o key

(* for (key, value) in table { cache.insert(format!("<tag>:{}", key), value) } *)
InsertAll(cache, tag, table) ==
    [x \in DOMAIN cache \cup {LangKey(tag, k) : k \in DOMAIN table} |->
        IF \E k \in DOMAIN table : x = LangKey(tag, k)
        THEN table[CHOOSE k \in DOMAIN table : x = LangKey(tag, k)]
        ELSE cache[x]]

(* the map init_static_translations builds before it sets the cell *)
BuiltStaticCache ==
    LET c1 == InsertAll(EmptyMap, <<"e", "n">>,
                        load_from_json_static(LocaleAsset("English")))
        c2 == InsertAll(c1, <<"z", "h", "-", "C", "N">>,
                        load_from_json_static(LocaleAsset("SimplifiedChinese")))
        c3 == InsertAll(c2, <<"z", "h", "-", "T", "W">>,
                        load_from_json_static(LocaleAsset("TraditionalChinese")))
        c4 == InsertAll(c3, <<"j", "a">>,
                        load_from_json_static(LocaleAsset("Japanese")))
    IN  InsertAll(c4, <<"k", "o">>, load_from_json_static(LocaleAsset("Korean")))

(* t_static composing its key with the default language, not the one read *)
StaticLookupDefaultLang(cache, lang, key) ==
    LET lang_key == LangKey(as_str("SimplifiedChinese"), key)
        byLang == MapGet(cache, lang_key)
        byKey == MapGet(cache, key)
    IN  IF IsSome(byLang) THEN Unwrap(byLang)
        ELSE IF IsSome(byKey) THEN Unwrap(byKey)
        ELSE key

(* the body of t_static under the read lock: the value it leaks and returns *)
StaticLookup(cache, lang, key) ==
    LET lang_key == LangKey(as_str(lang), key)
        byLang == MapGet(cache, lang_key)
        byKey == MapGet(cache, key)
    IN  IF IsSome(byLang) THEN Unwrap(byLang)
        ELSE IF IsSome(byKey) THEN Unwrap(byKey)
        ELSE key

(* a clear that is skipped *)
clear_skipped(cache) == cache

(* a clear that refills the map from the locale assets *)
clear_and_rebuild(cache) == BuiltStaticCache

(* c.clear() *)
Cleared(cache) == EmptyMap

(***************************************************************************)
(* The arguments the callers pass                                           *)
(***************************************************************************)
SwitchLangs == {"English", "Japanese"}
TKeys == {KeyA, KeyEnA}
TArgsKeys == {KeyM, KeyP0}
TArgsArgs == {<<<<"A">>>>}
TStaticKeys == {KeyA, KeyEnA}

(***************************************************************************)
(* State                                                                    *)
(*   I18N_MANAGER         Option of the manager in the OnceCell             *)
(*   STATIC_TRANSLATIONS  Option of the map in the OnceCell                 *)
(*   pc, call             each thread's position and the call it is in      *)
(*   log                  the calls that returned, in order of return       *)
(*   pure                 input and output of a pure function under test    *)
(*   manager_lock         Option of the thread that holds the MutexGuard    *)
(*   cache_lock           the RwLock: the writer, and the set of readers    *)
(* In Spec every section under the manager's Mutex or under the cache's     *)
(* RwLock is one step, and a call begins with its first access to shared    *)
(* state and returns with its last one; there the two locks stay free.      *)
(* SpecLocks has the invocation, every lock acquisition and every release   *)
(* as steps of their own.                                                   *)
(***************************************************************************)
VARIABLES I18N_MANAGER, STATIC_TRANSLATIONS, pc, call, log, pure,
          manager_lock, cache_lock

vars == <<I18N_MANAGER, STATIC_TRANSLATIONS, pc, call, log, pure, manager_lock, cache_lock>>

NoCall ==
    [op |-> "", key |-> <<>>, args |-> <<>>, lang |-> "", seen |-> "",
     old |-> "", start |-> 0, ovl |-> FALSE, inited |-> FALSE, actives |-> {}]

Unlocked == [writer |-> None, readers |-> {}]

NoPure == [fn |-> "", tmpl |-> <<>>, args |-> <<>>, out |-> <<>>, done |-> FALSE]

InFlight(th) == pc[th] \notin {"idle", "panicked"}

Started == Len(log) + Cardinality({th \in Threads : InFlight(th)})

Init ==
    /\ I18N_MANAGER = None
    /\ STATIC_TRANSLATIONS = None
    /\ pc = [th \in Threads |-> "idle"]
    /\ call = [th \in Threads |-> NoCall]
    /\ log = <<>>
    /\ pure = NoPure
    /\ manager_lock = None
    /\ cache_lock = Unlocked

(* a get_language that answers the language new() starts with when there
   is no manager *)
get_language_value_chinese_unset ==
    IF IsSome(I18N_MANAGER)
    THEN I18nManager_get_language(Unwrap(I18N_MANAGER))
    ELSE "SimplifiedChinese"

(* pub fn get_language, the section under the Mutex included *)
get_language_value ==
    IF IsSome(I18N_MANAGER)
    THEN I18nManager_get_language(Unwrap(I18N_MANAGER))
    ELSE "English"

(* a call begins: its arguments, and what was true when it began *)
NewCall(th, op, key, args, lang) ==
    [op |-> op, key |-> key, args |-> args, lang |-> lang, seen |-> "",
     old |-> "", start |-> Len(log),
     ovl |-> \E u \in Threads \ {th} : call[u].op = "set_language",
     inited |-> IsSome(I18N_MANAGER),
     actives |-> {get_language_value}]

(* Threads are interchangeable and keep nothing between calls, so a call
   begins on the first idle thread. *)
FirstIdle(th) == pc[th] = "idle" /\ \A u \in Threads : u < th => pc[u] # "idle"

CanBegin(th) == FirstIdle(th) /\ Started < MaxOps

(* the calls in flight, once thread th has begun the call c; a call that a
   set_language overlaps notes it, and the language it made active *)
Begun(th, c) ==
    [u \in Threads |->
        IF u = th THEN c
        ELSE IF c.op = "set_language" /\ InFlight(u)
             THEN [call[u] EXCEPT !.ovl = TRUE,
                                  !.actives = IF IsSome(I18N_MANAGER)
                                              THEN @ \cup {c.lang} ELSE @]
             ELSE call[u]]

(* the record of a call that returns val; seen is the language it read *)
Entry(c, val, seen) ==
    [op |-> c.op, key |-> c.key, args |-> c.args, lang |-> c.lang,
     seen |-> seen, old |-> c.old, val |-> val, start |-> c.start,
     ovl |-> c.ovl, inited |-> c.inited, initedEnd |-> IsSome(I18N_MANAGER),
     actives |-> c.actives]

Return(th, c, val, seen) ==
    /\ log' = Append(log, Entry(c, val, seen))
    /\ pc' = [pc EXCEPT ![th] = "idle"]
    /\ call' = [call EXCEPT ![th] = NoCall]

(***************************************************************************)
(* pub fn init: I18N_MANAGER.set(Mutex::new(I18nManager::new())).unwrap()   *)
(***************************************************************************)
init(th) ==
    /\ FirstIdle(th)
    /\ I18N_MANAGER' = OnceCell_set(I18N_MANAGER, I18nManager_new)
    /\ pc' = IF I18N_MANAGER = None THEN pc ELSE [pc EXCEPT ![th] = "panicked"]
    /\ UNCHANGED <<STATIC_TRANSLATIONS, call, log, pure, manager_lock, cache_lock>>

(***************************************************************************)
(* pub fn set_language: the section under the Mutex, then the clear         *)
(***************************************************************************)
set_language(th) ==
    /\ CanBegin(th)
    /\ \E lang \in SwitchLangs :
         /\ call' = Begun(th, [NewCall(th, "set_language", <<>>, <<>>, lang)
                                 EXCEPT !.old = get_language_value,
                                        !.actives = IF IsSome(I18N_MANAGER)
                                                    THEN @ \cup {lang} ELSE @])
         /\ I18N_MANAGER' =
              IF IsSome(I18N_MANAGER)
              THEN Some(I18nManager_set_language(Unwrap(I18N_MANAGER), lang))
              ELSE None
    /\ pc' = [pc EXCEPT ![th] = "sl_clear"]
    /\ UNCHANGED <<STATIC_TRANSLATIONS, log, pure, manager_lock, cache_lock>>

(* pub fn clear_static_cache, as the tail of set_language *)
clear_static_cache(th) ==
    /\ pc[th] = "sl_clear"
    /\ STATIC_TRANSLATIONS' =
         IF IsSome(STATIC_TRANSLATIONS)
         THEN Some(Cleared(Unwrap(STATIC_TRANSLATIONS)))
         ELSE None
    /\ Return(th, call[th], <<>>, "")
    /\ UNCHANGED <<I18N_MANAGER, pure, manager_lock, cache_lock>>

(***************************************************************************)
(* pub fn get_language                                                      *)
(***************************************************************************)
get_language(th) ==
    /\ CanBegin(th)
    /\ Return(th, NewCall(th, "get_language", <<>>, <<>>, ""), <<>>, get_language_value)
    /\ UNCHANGED <<I18N_MANAGER, STATIC_TRANSLATIONS, pure, manager_lock, cache_lock>>

(***************************************************************************)
(* pub fn t                                                                 *)
(***************************************************************************)
t_value(key) ==
    IF IsSome(I18N_MANAGER) THEN translate(Unwrap(I18N_MANAGER), key) ELSE key

t(th) ==
    /\ CanBegin(th)
    /\ \E key \in TKeys :
         Return(th, NewCall(th, "t", key, <<>>, ""), t_value(key), get_language_value)
    /\ UNCHANGED <<I18N_MANAGER, STATIC_TRANSLATIONS, pure, manager_lock, cache_lock>>

(***************************************************************************)
(* pub fn t_args                                                            *)
(***************************************************************************)
(* t_args dropping its arguments *)
t_args_value_no_subst(key, args) ==
    IF IsSome(I18N_MANAGER) THEN translate(Unwrap(I18N_MANAGER), key) ELSE key

t_args_value(key, args) ==
    IF IsSome(I18N_MANAGER)
    THEN translate_with_args(Unwrap(I18N_MANAGER), key, args)
    ELSE key

t_args(th) ==
    /\ CanBegin(th)
    /\ \E key \in TArgsKeys, args \in TArgsArgs :
         Return(th, NewCall(th, "t_args", key, args, ""), t_args_value(key, args),
                get_language_value)
    /\ UNCHANGED <<I18N_MANAGER, STATIC_TRANSLATIONS, pure, manager_lock, cache_lock>>

(***************************************************************************)
(* pub fn t_static, with init_static_translations                           *)
(***************************************************************************)
(* if STATIC_TRANSLATIONS.get().is_none() *)
t_static_check(th) ==
    /\ CanBegin(th)
    /\ \E key \in TStaticKeys :
         call' = Begun(th, NewCall(th, "t_static", key, <<>>, ""))
    /\ pc' = [pc EXCEPT ![th] = IF STATIC_TRANSLATIONS = None THEN "ts_init" ELSE "ts_lang"]
    /\ UNCHANGED <<I18N_MANAGER, STATIC_TRANSLATIONS, log, pure, manager_lock, cache_lock>>

(* STATIC_TRANSLATIONS.set(RwLock::new(cache)).ok() *)
init_static_translations(th) ==
    /\ pc[th] = "ts_init"
    /\ STATIC_TRANSLATIONS' = OnceCell_set(STATIC_TRANSLATIONS, BuiltStaticCache)
    /\ pc' = [pc EXCEPT ![th] = "ts_lang"]
    /\ UNCHANGED <<I18N_MANAGER, call, log, pure, manager_lock, cache_lock>>

(* get_language() inside format!("{}:{}", ...) *)
t_static_lang(th) ==
    /\ pc[th] = "ts_lang"
    /\ call' = [call EXCEPT ![th].seen = get_language_value]
    /\ pc' = [pc EXCEPT ![th] = "ts_read"]
    /\ UNCHANGED <<I18N_MANAGER, STATIC_TRANSLATIONS, log, pure, manager_lock, cache_lock>>

(* the section under cache.read() *)
t_static_lookup(th) ==
    /\ pc[th] = "ts_read"
    /\ Return(th, call[th],
              StaticLookup(Unwrap(STATIC_TRANSLATIONS), call[th].seen, call[th].key),
              call[th].seen)
    /\ UNCHANGED <<I18N_MANAGER, STATIC_TRANSLATIONS, pure, manager_lock, cache_lock>>

Next ==
    \E th \in Threads :
        \/ init(th)
        \/ set_language(th)
        \/ clear_static_cache(th)
        \/ get_language(th)
        \/ t(th)
        \/ t_args(th)
        \/ t_static_check(th)
        \/ init_static_translations(th)
        \/ t_static_lang(th)
        \/ t_static_lookup(th)

Spec == Init /\ [][Next]_vars

(***************************************************************************)
(* translate_with_args as a function of the template the lookup resolves    *)
(* and of the arguments: the inputs are drawn at the start, one step        *)
(* applies it.                                                              *)
(***************************************************************************)
Tokens == {Placeholder(0), Placeholder(1), Placeholder(2), <<"x">>, <<"{">>, <<"}">>, <<"1">>}
ArgValues == {<<"A">>, <<"1">>, <<>>, Placeholder(0), Placeholder(1)}

RECURSIVE Concat(_)
Concat(ss) == IF ss = <<>> THEN <<>> ELSE Head(ss) \o Concat(Tail(ss))

SeqsUpTo(S, n) == UNION {[1..k -> S] : k \in 0..n}

Templates == {Concat(ts) : ts \in SeqsUpTo(Tokens, MaxTokens)}
ArgLists == SeqsUpTo(ArgValues, MaxArgs)

(* a manager whose active table resolves KeyM to the template *)
ManagerWith(tmpl) ==
    [current_language |-> "English",
     translations |-> [lang \in Language |-> (KeyM :> tmpl)]]

InitSubst ==
    /\ I18N_MANAGER = None
    /\ STATIC_TRANSLATIONS = None
    /\ pc = [th \in Threads |-> "idle"]
    /\ call = [th \in Threads |-> NoCall]
    /\ log = <<>>
    /\ pure \in {[fn |-> "translate_with_args", tmpl |-> tmpl, args |-> args,
                  out |-> <<>>, done |-> FALSE] : tmpl \in Templates, args \in ArgLists}
    /\ manager_lock = None
    /\ cache_lock = Unlocked

apply_translate_with_args ==
    /\ pure.fn = "translate_with_args" /\ ~pure.done
    /\ pure' = [pure EXCEPT !.out = translate_with_args(ManagerWith(pure.tmpl), KeyM, pure.args),
                            !.done = TRUE]
    /\ UNCHANGED <<I18N_MANAGER, STATIC_TRANSLATIONS, pc, call, log,
                   manager_lock, cache_lock>>

NextSubst == apply_translate_with_args

SpecSubst == InitSubst /\ [][NextSubst]_vars

(***************************************************************************)
(* Language::from_str and Language::as_str as functions: the string to     *)
(* parse, or the language to write, is drawn at the start, one step        *)
(* applies the function.                                                   *)
(***************************************************************************)
TagParts ==
    {<<"e", "n">>, <<"z", "h">>, <<"-", "C", "N">>, <<"_", "c", "n">>,
     <<"-", "T", "W">>, <<"_", "t", "w">>, <<"j", "a">>, <<"k", "o">>,
     <<"_", "C", "N">>, <<"E", "N">>}

TagStrings == {Concat(ps) : ps \in SeqsUpTo(TagParts, MaxParts)}

InitTags ==
    /\ I18N_MANAGER = None
    /\ STATIC_TRANSLATIONS = None
    /\ pc = [th \in Threads |-> "idle"]
    /\ call = [th \in Threads |-> NoCall]
    /\ log = <<>>
    /\ manager_lock = None
    /\ cache_lock = Unlocked
    /\ pure \in {[fn |-> "from_str", tmpl |-> str, args |-> "", out |-> <<>>,
                  done |-> FALSE] : str \in TagStrings}
             \cup {[fn |-> "as_str", tmpl |-> <<>>, args |-> lang, out |-> <<>>,
                    done |-> FALSE] : lang \in Language}

apply_from_str ==
    /\ pure.fn = "from_str" /\ ~pure.done
    /\ pure' = [pure EXCEPT !.out = from_str(pure.tmpl), !.done = TRUE]
    /\ UNCHANGED <<I18N_MANAGER, STATIC_TRANSLATIONS, pc, call, log,
                   manager_lock, cache_lock>>

apply_as_str ==
    /\ pure.fn = "as_str" /\ ~pure.done
    /\ pure' = [pure EXCEPT !.out = as_str(pure.args), !.done = TRUE]
    /\ UNCHANGED <<I18N_MANAGER, STATIC_TRANSLATIONS, pc, call, log,
                   manager_lock, cache_lock>>

NextTags == apply_from_str \/ apply_as_str

SpecTags == InitTags /\ [][NextTags]_vars

(***************************************************************************)
(* The same functions with their locks.  A call is invoked, then waits for  *)
(* each lock it takes, and holds it for one section.  Entries of the log    *)
(* keep wr: for a set_language call the position of its write among the     *)
(* writes of the language, for any other call the number of writes applied  *)
(* when it read the language.                                               *)
(***************************************************************************)
(* a MutexGuard that is forgotten: the Mutex stays with its owner *)
MutexGuard_forget(owner) == owner

(* a MutexGuard going out of scope: the Mutex is free *)
MutexGuard_drop(owner) == None

LockOps == {"get_language", "set_language", "t", "t_args", "t_static"}

NoCallL ==
    [op |-> "", key |-> <<>>, args |-> <<>>, lang |-> "", seen |-> "",
     val |-> <<>>, start |-> 0, wr |-> 0, inited |-> FALSE]

(* the calls of set_language, returned or not, whose write is applied *)
Written ==
    {log[i] : i \in {j \in DOMAIN log : log[j].op = "set_language" /\ log[j].wr > 0}}
      \cup {call[th] : th \in {u \in Threads : call[u].op = "set_language" /\ call[u].wr > 0}}

Writes ==
    Cardinality({i \in DOMAIN log : log[i].op = "set_language" /\ log[i].wr > 0})
      + Cardinality({th \in Threads : call[th].op = "set_language" /\ call[th].wr > 0})

InitLocks ==
    /\ I18N_MANAGER = None
    /\ STATIC_TRANSLATIONS = None
    /\ pc = [th \in Threads |-> "idle"]
    /\ call = [th \in Threads |-> NoCallL]
    /\ log = <<>>
    /\ pure = NoPure
    /\ manager_lock = None
    /\ cache_lock = Unlocked

ReturnL(th, c) ==
    /\ log' = Append(log, c)
    /\ pc' = [pc EXCEPT ![th] = "idle"]
    /\ call' = [call EXCEPT ![th] = NoCallL]

(* a thread calls one of the functions *)
invoke(th) ==
    /\ CanBegin(th)
    /\ \E op \in LockOps, lang \in SwitchLangs :
         /\ (op # "set_language" => lang = "English")
         /\ call' = [call EXCEPT ![th] =
                [op |-> op,
                 key |-> CASE op = "t" -> KeyA [] op = "t_args" -> KeyM
                           [] op = "t_static" -> KeyA [] OTHER -> <<>>,
                 args |-> IF op = "t_args" THEN <<<<"A">>>> ELSE <<>>,
                 lang |-> IF op = "set_language" THEN lang ELSE "",
                 seen |-> "", val |-> <<>>, start |-> Len(log), wr |-> 0,
                 inited |-> IsSome(I18N_MANAGER)]]
         /\ pc' = [pc EXCEPT ![th] =
                CASE op = "get_language" -> "gl_lock"
                  [] op = "set_language" -> "sl_lock"
                  [] op = "t_static" -> "ts_get"
                  [] OTHER -> "tr_lock"]
    /\ UNCHANGED <<I18N_MANAGER, STATIC_TRANSLATIONS, log, pure, manager_lock, cache_lock>>

(* I18N_MANAGER.get().and_then(|m| m.lock().ok()): no manager, or the guard
   once the Mutex is free *)
get_language_lock(th) ==
    /\ pc[th] = "gl_lock"
    /\ IF I18N_MANAGER = None
       THEN /\ ReturnL(th, [call[th] EXCEPT !.seen = "English", !.wr = Writes])
            /\ UNCHANGED manager_lock
       ELSE /\ manager_lock = None
            /\ manager_lock' = Some(th)
            /\ pc' = [pc EXCEPT ![th] = "gl_held"]
            /\ UNCHANGED <<call, log>>
    /\ UNCHANGED <<I18N_MANAGER, STATIC_TRANSLATIONS, pure, cache_lock>>

(* .map(|m| m.get_language()), the guard dropped *)
get_language_read(th) ==
    /\ pc[th] = "gl_held"
    /\ manager_lock' = MutexGuard_drop(manager_lock)
    /\ ReturnL(th, [call[th] EXCEPT !.seen = I18nManager_get_language(Unwrap(I18N_MANAGER)),
                                    !.wr = Writes])
    /\ UNCHANGED <<I18N_MANAGER, STATIC_TRANSLATIONS, pure, cache_lock>>

(* if let Some(manager) = I18N_MANAGER.get() { if let Ok(mut m) = manager.lock() *)
set_language_lock(th) ==
    /\ pc[th] = "sl_lock"
    /\ IF I18N_MANAGER = None
       THEN /\ pc' = [pc EXCEPT ![th] = "cl_lock"]
            /\ UNCHANGED manager_lock
       ELSE /\ manager_lock = None
            /\ manager_lock' = Some(th)
            /\ pc' = [pc EXCEPT ![th] = "sl_held"]
    /\ UNCHANGED <<I18N_MANAGER, STATIC_TRANSLATIONS, call, log, pure, cache_lock>>

(* m.set_language(lang), the guard dropped at the end of the block *)
set_language_write(th) ==
    /\ pc[th] = "sl_held"
    /\ I18N_MANAGER' = Some(I18nManager_set_language(Unwrap(I18N_MANAGER), call[th].lang))
    /\ call' = [call EXCEPT ![th].wr = Writes + 1]
    /\ manager_lock' = MutexGuard_drop(manager_lock)
    /\ pc' = [pc EXCEPT ![th] = "cl_lock"]
    /\ UNCHANGED <<STATIC_TRANSLATIONS, log, pure, cache_lock>>

(* clear_static_cache: no cache, or cache.write() once no guard is out *)
clear_static_cache_lock(th) ==
    /\ pc[th] = "cl_lock"
    /\ IF STATIC_TRANSLATIONS = None
       THEN /\ ReturnL(th, call[th])
            /\ UNCHANGED cache_lock
       ELSE /\ cache_lock = Unlocked
            /\ cache_lock' = [cache_lock EXCEPT !.writer = Some(th)]
            /\ pc' = [pc EXCEPT ![th] = "cl_held"]
            /\ UNCHANGED <<call, log>>
    /\ UNCHANGED <<I18N_MANAGER, STATIC_TRANSLATIONS, pure, manager_lock>>

(* .map(|mut c| c.clear()), the guard dropped *)
clear_static_cache_write(th) ==
    /\ pc[th] = "cl_held"
    /\ STATIC_TRANSLATIONS' = Some(Cleared(Unwrap(STATIC_TRANSLATIONS)))
    /\ cache_lock' = [cache_lock EXCEPT !.writer = None]
    /\ ReturnL(th, call[th])
    /\ UNCHANGED <<I18N_MANAGER, pure, manager_lock>>


(* t and t_args: I18N_MANAGER.get().and_then(|m| m.lock().ok()) *)
translate_lock(th) ==
    /\ pc[th] = "tr_lock"
    /\ IF I18N_MANAGER = None
       THEN /\ ReturnL(th, [call[th] EXCEPT !.seen = "English", !.val = call[th].key,
                                            !.wr = Writes])
            /\ UNCHANGED manager_lock
       ELSE /\ manager_lock = None
            /\ manager_lock' = Some(th)
            /\ pc' = [pc EXCEPT ![th] = "tr_held"]
            /\ UNCHANGED <<call, log>>
    /\ UNCHANGED <<I18N_MANAGER, STATIC_TRANSLATIONS, pure, cache_lock>>

(* .map(|m| m.translate(key)) or .map(|m| m.translate_with_args(key, args)),
   the guard dropped *)
translate_unlock(th) ==
    /\ pc[th] = "tr_held"
    /\ manager_lock' = MutexGuard_drop(manager_lock)
    /\ LET m == Unwrap(I18N_MANAGER)
       IN  ReturnL(th, [call[th] EXCEPT
               !.seen = I18nManager_get_language(m),
               !.val = IF call[th].op = "t"
                       THEN translate(m, call[th].key)
                       ELSE translate_with_args(m, call[th].key, call[th].args),
               !.wr = Writes])
    /\ UNCHANGED <<I18N_MANAGER, STATIC_TRANSLATIONS, pure, cache_lock>>

(* t_static: if STATIC_TRANSLATIONS.get().is_none() *)
t_static_get(th) ==
    /\ pc[th] = "ts_get"
    /\ pc' = [pc EXCEPT ![th] = IF STATIC_TRANSLATIONS = None THEN "ts_init" ELSE "ts_lang_lock"]
    /\ UNCHANGED <<I18N_MANAGER, STATIC_TRANSLATIONS, call, log, pure, manager_lock, cache_lock>>

(* init_static_translations(): STATIC_TRANSLATIONS.set(RwLock::new(cache)).ok() *)
t_static_init(th) ==
    /\ pc[th] = "ts_init"
    /\ STATIC_TRANSLATIONS' = OnceCell_set(STATIC_TRANSLATIONS, BuiltStaticCache)
    /\ pc' = [pc EXCEPT ![th] = "ts_lang_lock"]
    /\ UNCHANGED <<I18N_MANAGER, call, log, pure, manager_lock, cache_lock>>

(* get_language() inside t_static: no manager, or the guard *)
t_static_lang_lock(th) ==
    /\ pc[th] = "ts_lang_lock"
    /\ IF I18N_MANAGER = None
       THEN /\ call' = [call EXCEPT ![th].seen = "English", ![th].wr = Writes]
            /\ pc' = [pc EXCEPT ![th] = "ts_read_lock"]
            /\ UNCHANGED manager_lock
       ELSE /\ manager_lock = None
            /\ manager_lock' = Some(th)
            /\ pc' = [pc EXCEPT ![th] = "ts_lang_held"]
            /\ UNCHANGED call
    /\ UNCHANGED <<I18N_MANAGER, STATIC_TRANSLATIONS, log, pure, cache_lock>>

(* the language read, the guard dropped before format! returns *)
t_static_lang_read(th) ==
    /\ pc[th] = "ts_lang_held"
    /\ manager_lock' = MutexGuard_drop(manager_lock)
    /\ call' = [call EXCEPT ![th].seen = I18nManager_get_language(Unwrap(I18N_MANAGER)),
                            ![th].wr = Writes]
    /\ pc' = [pc EXCEPT ![th] = "ts_read_lock"]
    /\ UNCHANGED <<I18N_MANAGER, STATIC_TRANSLATIONS, log, pure, cache_lock>>

(* if let Ok(cache) = cache.read(): once no writer holds the RwLock *)
t_static_read_lock(th) ==
    /\ pc[th] = "ts_read_lock"
    /\ cache_lock.writer = None
    /\ cache_lock' = [cache_lock EXCEPT !.readers = @ \cup {th}]
    /\ pc' = [pc EXCEPT ![th] = "ts_read_held"]
    /\ UNCHANGED <<I18N_MANAGER, STATIC_TRANSLATIONS, call, log, pure, manager_lock>>

(* the two cache.get and the return, the read guard dropped *)
t_static_read(th) ==
    /\ pc[th] = "ts_read_held"
    /\ cache_lock' = [cache_lock EXCEPT !.readers = @ \ {th}]
    /\ ReturnL(th, [call[th] EXCEPT !.val =
            StaticLookup(Unwrap(STATIC_TRANSLATIONS), call[th].seen, call[th].key)])
    /\ UNCHANGED <<I18N_MANAGER, STATIC_TRANSLATIONS, pure, manager_lock>>

(* the steps of a call that is under way *)
Continue(th) ==
    \/ get_language_lock(th)
    \/ get_language_read(th)
    \/ set_language_lock(th)
    \/ set_language_write(th)
    \/ clear_static_cache_lock(th)
    \/ clear_static_cache_write(th)
    \/ translate_lock(th)
    \/ translate_unlock(th)
    \/ t_static_get(th)
    \/ t_static_init(th)
    \/ t_static_lang_lock(th)
    \/ t_static_lang_read(th)
    \/ t_static_read_lock(th)
    \/ t_static_read(th)

NextLocks ==
    \E th \in Threads :
        \/ init(th)
        \/ invoke(th)
        \/ Continue(th)

SpecLocks == InitLocks /\ [][NextLocks]_vars

(* every thread that can take a step of its call takes one in the end *)
FairSpecLocks == SpecLocks /\ \A th \in Threads : WF_vars(Continue(th))

(***************************************************************************)
(* What the properties speak of                                             *)
(***************************************************************************)
(* the table of a language, and the store lookup under it: the entry of
   the key, or the key itself *)
TableOf(lang) == load_translations(lang)
Expected(lang, key) == IF key \in DOMAIN TableOf(lang) THEN TableOf(lang)[key] ELSE key

(* the call of entry i had returned when the call of entry j began *)
Precedes(i, j) == i <= log[j].start

SwitchInFlight == \E th \in Threads : call[th].op = "set_language"

CacheKeys == IF IsSome(STATIC_TRANSLATIONS) THEN DOMAIN Unwrap(STATIC_TRANSLATIONS) ELSE {}

HasPrefix(s, p) == Len(s) >= Len(p) /\ SubSeq(s, 1, Len(p)) = p

(* a key that is not itself of the form <language tag>:<key> *)
PlainKey(key) == \A lang \in Language : ~HasPrefix(key, as_str(lang) \o <<":">>)

(* the cache keys composed under a language *)
KeysUnder(lang) == {x \in CacheKeys : HasPrefix(x, as_str(lang) \o <<":">>)}

(***************************************************************************)
(* C1  Cache consistency across a switch: when t_static(k) has returned on  *)
(* an initialized store, then set_language(B) has run, and then t_static(k) *)
(* runs again with B active and no switch overlapping it, the second call   *)
(* returns B's entry for k, or k if B has none.                             *)
(***************************************************************************)
C1_ConsistentAcrossSwitch ==
    \A i \in DOMAIN log, j \in DOMAIN log, l \in DOMAIN log :
        ( /\ log[i].op = "t_static" /\ log[i].inited
          /\ log[j].op = "set_language"
          /\ log[l].op = "t_static" /\ log[l].key = log[i].key
          /\ Precedes(i, j) /\ Precedes(j, l)
          /\ ~log[l].ovl /\ log[l].seen = log[j].lang )
        => log[l].val = Expected(log[j].lang, log[l].key)

(***************************************************************************)
(* C2  Concurrent switch safety: in a run with a single set_language call   *)
(* on an initialized store, every t_static(k) that the switch overlaps      *)
(* returns the store lookup of k under a language that was active at some   *)
(* instant of the call.  Stated for the keys that are not themselves of the *)
(* form <language tag>:<key>, which C7 is about.                            *)
(***************************************************************************)
Switches ==
    Cardinality({i \in DOMAIN log : log[i].op = "set_language"})
      + Cardinality({th \in Threads : call[th].op = "set_language"})

C2_ConsistentWithSomeActive ==
    Switches <= 1 =>
        \A l \in DOMAIN log :
            (log[l].op = "t_static" /\ log[l].inited /\ log[l].ovl
               /\ PlainKey(log[l].key))
            => \E lang \in log[l].actives : log[l].val = Expected(lang, log[l].key)

(***************************************************************************)
(* C3  Invalidation completeness: once a set_language call that changed the *)
(* language of an initialized store has returned, and as long as no switch  *)
(* and no t_static call has begun since, the cache holds no entry under the *)
(* old language's composite keys.                                           *)
(***************************************************************************)
C3_NoOldEntryAfterSwitch ==
    \A j \in DOMAIN log :
        ( /\ log[j].op = "set_language" /\ log[j].inited
          /\ log[j].old # log[j].lang
          /\ \A th \in Threads : InFlight(th) => call[th].start < j
          /\ \A l \in DOMAIN log : l > j => log[l].op \notin {"set_language", "t_static"} )
        => KeysUnder(log[j].old) = {}

(***************************************************************************)
(* C4  Miss fills the cache: right after a t_static(key) call on an         *)
(* initialized store has returned, with no switch during or after it, it    *)
(* has returned t(key) and the cache holds t(key) under the composite key   *)
(* of the active language and key.  Stated for the keys that are not        *)
(* themselves of the form <language tag>:<key>, which C7 is about.          *)
(***************************************************************************)
C4_MissInserts ==
    LET l == Len(log) IN
    ( /\ l > 0
      /\ log[l].op = "t_static" /\ log[l].inited /\ PlainKey(log[l].key)
      /\ ~log[l].ovl /\ ~SwitchInFlight )
    => /\ log[l].val = Expected(log[l].seen, log[l].key)
       /\ LangKey(as_str(log[l].seen), log[l].key) \in CacheKeys
       /\ Unwrap(STATIC_TRANSLATIONS)[LangKey(as_str(log[l].seen), log[l].key)]
            = Expected(log[l].seen, log[l].key)

(* a t_static(k) call that read B never returns the entry another language
   holds for k, when that entry is not the store lookup of k under B *)
C5_NoStaleRead ==
    \A l \in DOMAIN log :
        (log[l].op = "t_static" /\ log[l].inited)
        => \A other \in Language \ {log[l].seen} :
              ( /\ log[l].key \in DOMAIN TableOf(other)
                /\ TableOf(other)[log[l].key] # Expected(log[l].seen, log[l].key) )
              => log[l].val # TableOf(other)[log[l].key]

(* the step at which a set_language call returns leaves no entry in the cache *)
C5_ClearedAtReturn ==
    \A th \in Threads :
        (pc[th] = "sl_clear" /\ pc'[th] = "idle") => CacheKeys' = {}

(***************************************************************************)
(* C5  No reader sees the new language with stale strings: a t_static(k)    *)
(* call that read B as the active language never returns the entry that a   *)
(* different language A holds for k when that entry differs from the store  *)
(* lookup of k under B; and at the step at which a set_language call        *)
(* returns, the cache holds no entry.                                       *)
(***************************************************************************)
C5_NoStaleAfterSwitch == []C5_NoStaleRead /\ [][C5_ClearedAtReturn]_vars

(* a t_static call that a switch overlapped read the new language and
   returned its entry, which differs from the old language's *)
C5_Witness ==
    \E l \in DOMAIN log :
        /\ log[l].op = "t_static" /\ log[l].inited /\ log[l].ovl
        /\ log[l].key = KeyA /\ log[l].seen = "English"
        /\ log[l].val = <<"E", "a">>
        /\ "SimplifiedChinese" \in log[l].actives

(***************************************************************************)
(* C6  Store lookup: on an initialized store t(key) returns the active      *)
(* language's entry for key when it has one and key itself otherwise, so    *)
(* never another language's entry.                                          *)
(***************************************************************************)
C6_LookupOrKey ==
    \A l \in DOMAIN log :
        (log[l].op = "t" /\ log[l].inited)
        => log[l].val = IF log[l].key \in DOMAIN TableOf(log[l].seen)
                        THEN TableOf(log[l].seen)[log[l].key]
                        ELSE log[l].key

(* the same key looked up under a language that holds it and under one that
   does not, while another language still holds it *)
C6_Witness ==
    \E i \in DOMAIN log, l \in DOMAIN log :
        /\ log[i].op = "t" /\ log[i].key = KeyA
        /\ log[i].seen = "SimplifiedChinese" /\ log[i].val = <<"Z", "a">>
        /\ log[l].op = "t" /\ log[l].key = KeyA /\ log[l].inited
        /\ log[l].seen = "Japanese" /\ log[l].val = KeyA
        /\ KeyA \in DOMAIN TableOf("English")

(***************************************************************************)
(* C7  No cross-language fallback in the stable lookup: t_static(key) that  *)
(* read L as the active language of an initialized store returns L's entry  *)
(* for exactly that key or the key itself.                                  *)
(***************************************************************************)
C7_NoCrossLanguage ==
    \A l \in DOMAIN log :
        (log[l].op = "t_static" /\ log[l].inited)
        => \/ log[l].val = log[l].key
           \/ /\ log[l].key \in DOMAIN TableOf(log[l].seen)
              /\ log[l].val = TableOf(log[l].seen)[log[l].key]

(***************************************************************************)
(* C8  Before init every lookup fails safe: a t, t_args or t_static call    *)
(* that returns while the store is still uninitialized returns its key.     *)
(***************************************************************************)
C8_RawKeyBeforeInit ==
    \A l \in DOMAIN log :
        (log[l].op \in {"t", "t_args", "t_static"} /\ ~log[l].initedEnd)
        => log[l].val = log[l].key

(***************************************************************************)
(* Positional substitution as the specification words it: one pass over the *)
(* template in which every placeholder {i} with i < Len(args) gives way to  *)
(* args[i] and everything else stays.                                       *)
(***************************************************************************)
RECURSIVE SimSubst(_, _)
SimSubst(s, args) ==
    IF s = <<>> THEN <<>>
    ELSE IF \E i \in 0..(Len(args) - 1) : HasPrefix(s, Placeholder(i))
         THEN LET i == CHOOSE i \in 0..(Len(args) - 1) : HasPrefix(s, Placeholder(i))
              IN  args[i + 1] \o SimSubst(SubSeq(s, Len(Placeholder(i)) + 1, Len(s)), args)
         ELSE <<Head(s)>> \o SimSubst(Tail(s), args)

DigitChars == {"0", "1", "2", "3", "4", "5", "6", "7", "8", "9"}

(* every brace of s is part of a placeholder {digits} *)
RECURSIVE WellFormed(_)
WellFormed(s) ==
    IF s = <<>> THEN TRUE
    ELSE IF Head(s) = "{"
         THEN \E n \in 3..Len(s) :
                 /\ s[n] = "}"
                 /\ \A m \in 2..(n - 1) : s[m] \in DigitChars
                 /\ WellFormed(SubSeq(s, n + 1, Len(s)))
         ELSE Head(s) # "}" /\ WellFormed(Tail(s))

BraceFree(args) ==
    \A i \in DOMAIN args : \A n \in DOMAIN args[i] : args[i][n] \notin {"{", "}"}

(***************************************************************************)
(* C9  Positional substitution, as claimed for every template and every     *)
(* argument list: the result of translate_with_args is the template with    *)
(* every {i}, i < Len(args), replaced by args[i] and all else untouched.    *)
(***************************************************************************)
C9_SubstAnyInput ==
    pure.done => pure.out = SimSubst(pure.tmpl, pure.args)

(***************************************************************************)
(* C9 as amended: the same, for templates whose braces occur only in        *)
(* placeholders {n} and arguments that contain no brace.                    *)
(***************************************************************************)
C9_SubstWellFormed ==
    (pure.done /\ WellFormed(pure.tmpl) /\ BraceFree(pure.args))
    => pure.out = SimSubst(pure.tmpl, pure.args)

(* {0}x{1} with one argument: {0} is replaced, {1} stays *)
C9_Witness ==
    /\ pure.done
    /\ pure.tmpl = Placeholder(0) \o <<"x">> \o Placeholder(1)
    /\ pure.args = <<<<"A">>>>
    /\ pure.out = <<"A", "x">> \o Placeholder(1)

(***************************************************************************)
(* C10  t_args is lookup, then substitution, in every state, as claimed:    *)
(* it returns the arguments substituted into what t returns for the key in  *)
(* the same state, which before init is the key.                            *)
(***************************************************************************)
C10_LookupThenSubstAlways ==
    \A l \in DOMAIN log :
        log[l].op = "t_args"
        => log[l].val = SimSubst(IF log[l].inited
                                 THEN Expected(log[l].seen, log[l].key)
                                 ELSE log[l].key,
                                 log[l].args)

(***************************************************************************)
(* C10 as amended: on an initialized store t_args returns the arguments     *)
(* substituted into what t returns for the key, also when the key is        *)
(* missing from the active table; before init it returns the key itself,    *)
(* with nothing substituted.                                                *)
(***************************************************************************)
C10_LookupThenSubst ==
    \A l \in DOMAIN log :
        log[l].op = "t_args"
        => log[l].val = IF log[l].inited
                        THEN SimSubst(Expected(log[l].seen, log[l].key), log[l].args)
                        ELSE log[l].key

(* before init the key {0} came back as it is; after init, where no table
   holds it, its placeholder was replaced *)
C10_Witness ==
    \E i \in DOMAIN log, l \in DOMAIN log :
        /\ log[i].op = "t_args" /\ ~log[i].inited
        /\ log[i].key = KeyP0 /\ log[i].val = KeyP0
        /\ log[l].op = "t_args" /\ log[l].inited
        /\ log[l].key = KeyP0 /\ log[l].val = <<"A">>

(***************************************************************************)
(* C11  A switch to the language that is already active: the step of        *)
(* set_language(L) under the Mutex leaves L the active language when L was  *)
(* active before it, and the step at which a set_language call returns      *)
(* leaves the cache without an entry, whether its language differed from    *)
(* the one it replaced or not.                                              *)
(***************************************************************************)
C11_SameLanguageStillClears ==
    [][\A th \in Threads :
          /\ (pc[th] = "idle" /\ pc'[th] = "sl_clear"
                /\ call'[th].lang = get_language_value)
             => get_language_value' = call'[th].lang
          /\ (pc[th] = "sl_clear" /\ pc'[th] = "idle")
             => /\ CacheKeys' = {}
                /\ log'[Len(log')].op = "set_language"
                /\ (call[th].old = call[th].lang => get_language_value' = get_language_value)
      ]_vars

(* set_language(English) returned on an initialized store whose language
   was English and whose cache an earlier t_static had filled; the language
   is English and the cache is there and empty *)
C11_Witness ==
    \E i \in DOMAIN log, j \in DOMAIN log :
        /\ log[i].op = "t_static" /\ Precedes(i, j)
        /\ log[j].op = "set_language" /\ log[j].inited
        /\ log[j].old = "English" /\ log[j].lang = "English"
        /\ j = Len(log) /\ \A th \in Threads : ~InFlight(th)
        /\ get_language_value = "English"
        /\ IsSome(STATIC_TRANSLATIONS) /\ CacheKeys = {}

(***************************************************************************)
(* C12  get_language is linearizable against set_language on an            *)
(* initialized store.  With the writes of the language in the order in     *)
(* which they were applied, every get_language call returns the language   *)
(* new() set when no write was applied at its read, and the argument of    *)
(* the latest write otherwise; that read lies between the call's start and *)
(* its return: it follows the write of every set_language that returned    *)
(* before the call began and precedes the write of every set_language that *)
(* began after it returned; and of two get_language calls of which one     *)
(* returned before the other began, the later never reads an earlier write.*)
(***************************************************************************)
C12_Linearizable ==
    \A g \in DOMAIN log :
        (log[g].op = "get_language" /\ log[g].inited)
        => /\ IF log[g].wr = 0
              THEN log[g].seen = "SimplifiedChinese"
              ELSE \E c \in Written : c.wr = log[g].wr /\ c.lang = log[g].seen
           /\ \A j \in DOMAIN log :
                (log[j].op = "set_language" /\ log[j].wr > 0 /\ Precedes(j, g))
                => log[j].wr <= log[g].wr
           /\ \A c \in Written : c.start >= g => c.wr > log[g].wr
           /\ \A h \in DOMAIN log :
                (log[h].op = "get_language" /\ Precedes(g, h))
                => log[g].wr <= log[h].wr

(* a get_language call returned English, the argument of a set_language
   call that has applied its write and has not returned yet, and a second
   get_language call that began after the first returned read it too *)
C12_Witness ==
    \E g \in DOMAIN log, h \in DOMAIN log, th \in Threads :
        /\ log[g].op = "get_language" /\ log[g].inited
        /\ log[g].seen = "English" /\ log[g].wr = 1
        /\ log[h].op = "get_language" /\ Precedes(g, h)
        /\ log[h].seen = "English" /\ log[h].wr = 1
        /\ call[th].op = "set_language" /\ call[th].wr = 1
        /\ call[th].lang = "English" /\ call[th].start < g

(***************************************************************************)
(* C13  A second init fails fatally and replaces nothing: a step of init   *)
(* on a store that has its manager ends in a panic of the calling thread,  *)
(* and a thread panics only in a step that finds the manager set and       *)
(* leaves it, language and tables, as it was.                              *)
(***************************************************************************)
C13_SecondInitPanics ==
    [][\A th \in Threads :
          /\ (init(th) /\ IsSome(I18N_MANAGER)) => pc'[th] = "panicked"
          /\ (pc[th] # "panicked" /\ pc'[th] = "panicked")
             => (IsSome(I18N_MANAGER) /\ I18N_MANAGER' = I18N_MANAGER)
      ]_vars

(* a thread has panicked in init, and the manager holds the language a
   set_language call gave it and the tables new() loaded *)
C13_Witness ==
    /\ \E th \in Threads : pc[th] = "panicked"
    /\ \E j \in DOMAIN log : log[j].op = "set_language" /\ log[j].lang = "English"
    /\ IsSome(I18N_MANAGER)
    /\ Unwrap(I18N_MANAGER).current_language = "English"
    /\ Unwrap(I18N_MANAGER).translations = I18nManager_new.translations

(* the set_language calls on an initialized store, returned or under way,
   other than the one of entry j, as pairs of start and position of return
   (0 when under way) *)
OtherSwitches(j) ==
    {<<log[k].start, k>> : k \in {i \in DOMAIN log :
                                    i # j /\ log[i].op = "set_language" /\ log[i].inited}}
      \cup {<<call[th].start, 0>> : th \in {u \in Threads :
                                    call[u].op = "set_language" /\ call[u].inited}}

(***************************************************************************)
(* C14  The active language over time: a get_language call that began on   *)
(* an initialized store and returned before any set_language call on it    *)
(* began returns SimplifiedChinese; a get_language call that began after   *)
(* set_language(L) returned returns L, provided every other set_language   *)
(* call returned before that one began or began after the get_language     *)
(* call returned.                                                          *)
(***************************************************************************)
C14_DefaultThenLastSet ==
    \A g \in DOMAIN log :
        (log[g].op = "get_language" /\ log[g].inited)
        => /\ (\A sw \in OtherSwitches(0) : sw[1] >= g)
              => log[g].seen = "SimplifiedChinese"
           /\ \A j \in DOMAIN log :
                ( /\ log[j].op = "set_language" /\ log[j].inited /\ Precedes(j, g)
                  /\ \A sw \in OtherSwitches(j) :
                        \/ sw[2] # 0 /\ sw[2] <= log[j].start
                        \/ sw[1] >= g )
                => log[g].seen = log[j].lang

(* get_language returned SimplifiedChinese after init, then
   set_language(Japanese) ran, then get_language returned Japanese *)
C14_Witness ==
    \E g \in DOMAIN log, j \in DOMAIN log, h \in DOMAIN log :
        /\ log[g].op = "get_language" /\ log[g].inited
        /\ log[g].seen = "SimplifiedChinese" /\ Precedes(g, j)
        /\ log[j].op = "set_language" /\ log[j].lang = "Japanese" /\ Precedes(j, h)
        /\ log[h].op = "get_language" /\ log[h].seen = "Japanese"

(* the strings that name a language, the canonical tag first *)
Aliases(lang) ==
    CASE lang = "English" -> {<<"e", "n">>}
      [] lang = "SimplifiedChinese" ->
            {<<"z", "h", "-", "C", "N">>, <<"z", "h", "_", "c", "n">>, <<"z", "h">>}
      [] lang = "TraditionalChinese" ->
            {<<"z", "h", "-", "T", "W">>, <<"z", "h", "_", "t", "w">>}
      [] lang = "Japanese" -> {<<"j", "a">>}
      [] lang = "Korean" -> {<<"k", "o">>}

CanonicalTag(lang) ==
    CASE lang = "English" -> <<"e", "n">>
      [] lang = "SimplifiedChinese" -> <<"z", "h", "-", "C", "N">>
      [] lang = "TraditionalChinese" -> <<"z", "h", "-", "T", "W">>
      [] lang = "Japanese" -> <<"j", "a">>
      [] lang = "Korean" -> <<"k", "o">>

(***************************************************************************)
(* C15  Language tags: from_str of an alias of a language is Some of that  *)
(* language, from_str of any other string is None; as_str of a language is *)
(* its canonical tag, and from_str of that tag is Some of the language.    *)
(***************************************************************************)
C15_TagsRoundTrip ==
    /\ (pure.fn = "from_str" /\ pure.done)
       => /\ \A lang \in Language :
                pure.tmpl \in Aliases(lang) => pure.out = Some(lang)
          /\ (\A lang \in Language : pure.tmpl \notin Aliases(lang))
                => pure.out = None
    /\ (pure.fn = "as_str" /\ pure.done)
       => /\ pure.out = CanonicalTag(pure.args)
          /\ from_str(pure.out) = Some(pure.args)

(* the alias zh_cn parsed to SimplifiedChinese *)
C15_Witness ==
    /\ pure.fn = "from_str" /\ pure.done
    /\ pure.tmpl = <<"z", "h", "_", "c", "n">>
    /\ pure.out = Some("SimplifiedChinese")

(***************************************************************************)
(* C16  Locale content that does not parse: init sets the manager all the  *)
(* same, no thread panics while the manager is unset, the language of such *)
(* content has the empty table, and every t(key) that read such a language *)
(* as active returned key.                                                 *)
(***************************************************************************)
C16_MalformedGivesEmptyTable ==
    /\ (\E th \in Threads : pc[th] = "panicked") => IsSome(I18N_MANAGER)
    /\ IsSome(I18N_MANAGER)
       => \A lang \in Language :
             ~LocaleAsset(lang).valid
             => Unwrap(I18N_MANAGER).translations[lang] = EmptyMap
    /\ \A l \in DOMAIN log :
          (log[l].op = "t" /\ log[l].inited /\ ~LocaleAsset(log[l].seen).valid)
          => log[l].val = log[l].key

(* with Japanese active, whose content does not parse, t("a") returned "a",
   a key the English and the Chinese tables hold *)
C16_Witness ==
    \E l \in DOMAIN log :
        /\ log[l].op = "t" /\ log[l].inited
        /\ log[l].seen = "Japanese" /\ ~LocaleAsset("Japanese").valid
        /\ log[l].key = KeyA /\ log[l].val = KeyA
        /\ KeyA \in DOMAIN TableOf("English")

(* the entries of the cache; none while the cell is unset *)
CacheContents == IF IsSome(STATIC_TRANSLATIONS) THEN Unwrap(STATIC_TRANSLATIONS) ELSE EmptyMap

(***************************************************************************)
(* C17  The cache has two kinds of transition: a step that changes the     *)
(* entries of the cache is either the return of a set_language call, which *)
(* leaves no entry, or the lookup step of a t_static call, which adds      *)
(* exactly one entry and keeps the others.                                 *)
(***************************************************************************)
C17_OnlyInsertOneOrClear ==
    [][CacheContents' # CacheContents
          => \/ /\ \E th \in Threads : pc[th] = "sl_clear" /\ pc'[th] = "idle"
                /\ CacheKeys' = {}
             \/ /\ \E th \in Threads : pc[th] = "ts_read" /\ pc'[th] = "idle"
                /\ CacheKeys \subseteq CacheKeys'
                /\ Cardinality(CacheKeys' \ CacheKeys) = 1
                /\ \A x \in CacheKeys : CacheContents'[x] = CacheContents[x]
      ]_vars

(* thread th holds the guard of the manager, or one of the cache *)
HoldsManager(th) == manager_lock = Some(th)
HoldsCache(th) == cache_lock.writer = Some(th) \/ th \in cache_lock.readers

(***************************************************************************)
(* C18  No call blocks for ever: no thread ever holds the guard of the     *)
(* manager and a guard of the cache at once; whenever calls are under way, *)
(* one of them can take a step; and, when every thread that can take a     *)
(* step of its call takes one in the end, every call that was invoked      *)
(* returns.                                                                *)
(***************************************************************************)
C18_NoCallBlocksForEver ==
    /\ [](\A th \in Threads : ~(HoldsManager(th) /\ HoldsCache(th)))
    /\ []((\E th \in Threads : InFlight(th))
            => \E th \in Threads : InFlight(th) /\ ENABLED Continue(th))
    /\ \A th \in Threads : InFlight(th) ~> (pc[th] = "idle")

(* a set_language call holds the write guard of the cache while a t_static
   call waits to read it, and a call that waited on the manager has
   returned *)
C18_Witness ==
    \E th \in Threads, u \in Threads :
        /\ pc[th] = "cl_held" /\ cache_lock.writer = Some(th)
        /\ pc[u] = "ts_read_lock" /\ ~ENABLED Continue(u)
        /\ \E l \in DOMAIN log : log[l].op \in LockOps /\ log[l].inited

(* no step changes the tables of the manager; a step that changes its
   language is the write of a set_language call with that language; a step
   at which t, t_args, t_static or get_language returns leaves the manager
   as it was *)
C19_StepFrame ==
    IsSome(I18N_MANAGER)
    => /\ IsSome(I18N_MANAGER')
       /\ Unwrap(I18N_MANAGER').translations = Unwrap(I18N_MANAGER).translations
       /\ Unwrap(I18N_MANAGER').current_language # Unwrap(I18N_MANAGER).current_language
          => \E th \in Threads :
                /\ pc[th] = "idle" /\ pc'[th] = "sl_clear"
                /\ call'[th].lang = Unwrap(I18N_MANAGER').current_language
       /\ (Len(log') > Len(log)
             /\ log'[Len(log')].op \in {"t", "t_args", "t_static", "get_language"})
          => I18N_MANAGER' = I18N_MANAGER

(***************************************************************************)
(* C19  Frame of the store: once init has set the manager its tables are   *)
(* the ones new() loaded in every state, so no lookup of a missing key has *)
(* added a key; no step changes them; the language changes only in the     *)
(* write of a set_language call; t, t_args, t_static and get_language      *)
(* leave the manager as it was.                                            *)
(***************************************************************************)
C19_FrameOfStore ==
    /\ [](IsSome(I18N_MANAGER)
            => Unwrap(I18N_MANAGER).translations
                 = [lang \in Language |-> load_translations(lang)])
    /\ [][C19_StepFrame]_vars

(* t of a key no table holds returned the key, t_static returned, a
   set_language(English) call changed the language, and the tables are the
   ones new() loaded, without that key *)
C19_Witness ==
    /\ \E l \in DOMAIN log :
          /\ log[l].op = "t" /\ log[l].inited
          /\ log[l].key = KeyEnA /\ log[l].val = KeyEnA
    /\ \E l \in DOMAIN log : log[l].op = "t_static" /\ log[l].inited
    /\ \E j \in DOMAIN log :
          /\ log[j].op = "set_language" /\ log[j].inited
          /\ log[j].old = "SimplifiedChinese" /\ log[j].lang = "English"
    /\ IsSome(I18N_MANAGER)
    /\ Unwrap(I18N_MANAGER).current_language = "English"
    /\ \A lang \in Language : KeyEnA \notin DOMAIN Unwrap(I18N_MANAGER).translations[lang]

(* a t_static call that began after a set_language call had returned,
   which itself began after an earlier t_static call had returned and so
   cleared the cache that call had found or created, returned its key *)
C20_KeyAfterClear ==
    \A i \in DOMAIN log, j \in DOMAIN log, l \in DOMAIN log :
        ( /\ log[i].op = "t_static" /\ Precedes(i, j)
          /\ log[j].op = "set_language" /\ Precedes(j, l)
          /\ log[l].op = "t_static" )
        => log[l].val = log[l].key

SwitchesOnManager ==
    Cardinality({i \in DOMAIN log : log[i].op = "set_language" /\ log[i].inited})
      + Cardinality({th \in Threads : call[th].op = "set_language" /\ call[th].inited})

(* before init: get_language returned English; after init, with no
   set_language call that found the manager, the language is the one new()
   starts with *)
C21_StateBeforeInit ==
    /\ \A g \in DOMAIN log :
          (log[g].op = "get_language" /\ ~log[g].inited) => log[g].seen = "English"
    /\ (IsSome(I18N_MANAGER) /\ SwitchesOnManager = 0)
          => Unwrap(I18N_MANAGER).current_language = "SimplifiedChinese"

(* the step of set_language that finds no manager leaves none and records
   nothing; the step of init that sets the manager sets SimplifiedChinese *)
C21_StepBeforeInit ==
    /\ (I18N_MANAGER = None /\ \E th \in Threads : pc[th] = "idle" /\ pc'[th] = "sl_clear")
          => (I18N_MANAGER' = None /\ get_language_value' = "English")
    /\ (I18N_MANAGER = None /\ IsSome(I18N_MANAGER'))
          => Unwrap(I18N_MANAGER').current_language = "SimplifiedChinese"

(***************************************************************************)
(* C21  Before init: get_language returns English; set_language(L) records *)
(* no language, in its step under the missing manager nothing of the       *)
(* language changes; and after a later init the language is                *)
(* SimplifiedChinese, whatever set_language calls came before.             *)
(***************************************************************************)
C21_SwitchBeforeInitIsLost ==
    []C21_StateBeforeInit /\ [][C21_StepBeforeInit]_vars

(* set_language(Japanese) returned before init, get_language then returned
   English, and after init the language is SimplifiedChinese *)
C21_Witness ==
    /\ \E j \in DOMAIN log, g \in DOMAIN log :
          /\ log[j].op = "set_language" /\ ~log[j].initedEnd
          /\ log[j].lang = "Japanese" /\ Precedes(j, g)
          /\ log[g].op = "get_language" /\ ~log[g].inited
          /\ log[g].seen = "English"
    /\ IsSome(I18N_MANAGER)
    /\ Unwrap(I18N_MANAGER).current_language = "SimplifiedChinese"

(* replace-all of {0} by args[0], then of {1} by args[1] on that result,
   and so on up to the n-th argument *)
RECURSIVE ReplacedUpTo(_, _, _)
ReplacedUpTo(s, args, n) ==
    IF n = 0 THEN s
    ELSE replace(ReplacedUpTo(s, args, n - 1), Placeholder(n - 1), args[n])

(***************************************************************************)
(* C22  Substitution is sequential: the result of translate_with_args is   *)
(* the template after replace-all of {0} by args[0], then replace-all of   *)
(* {1} by args[1] on that result, and so on in index order.  So a {1} that *)
(* args[0] brings in is replaced by args[1] ({0} with ["{1}", "A"] gives   *)
(* A), and a {0} that args[1] brings in stays ({1} with ["A", "{0}"] gives *)
(* {0}).                                                                   *)
(***************************************************************************)
C22_SubstSequential ==
    pure.done
    => /\ pure.out = ReplacedUpTo(pure.tmpl, pure.args, Len(pure.args))
       /\ (pure.tmpl = Placeholder(0) /\ pure.args = <<Placeholder(1), <<"A">>>>)
             => pure.out = <<"A">>
       /\ (pure.tmpl = Placeholder(1) /\ pure.args = <<<<"A">>, Placeholder(0)>>)
             => pure.out = Placeholder(0)

(* {0}x{1} with ["{1}", "A"] gave AxA: the {1} args[0] brought in was
   replaced together with the one of the template *)
C22_Witness ==
    /\ pure.done
    /\ pure.tmpl = Placeholder(0) \o <<"x">> \o Placeholder(1)
    /\ pure.args = <<Placeholder(1), <<"A">>>>
    /\ pure.out = <<"A", "x", "A">>
=============================================================================
